---------------------------- MODULE Spec2Model ----------------------------
(***************************************************************************)
(* Model of codex-rs/cli/src/prompt_cmd.rs: the `codex prompt` command.    *)
(*                                                                         *)
(* Text is a sequence of one-character strings.  The two output sinks are  *)
(* sequences of tokens: a token is one character of text, NL, CR, or one   *)
(* literal piece of a format string.                                       *)
(***************************************************************************)
EXTENDS Integers, Sequences, FiniteSets, TLC

\* Longest event sequence a stream delivers to consume_stream when it is
\* driven directly, and when it is reached through run_prompt_command.
MaxEvents == 4
MaxCmdEvents == 2

\* Longest content list of a message handed to assistant_text on its own.
MaxContent == 2

NL == "\n"
CR == "\r"

\* Text fragments carried by the delta events.
Fragments == { <<>>, <<"a">>, <<"b">> }

\* Errors the transport may yield instead of an event.
TransportErrors == { "E1", "E2" }

Last(s) == s[Len(s)]

----------------------------------------------------------------------------
(* codex_protocol::models::ContentItem / ResponseItem, as used here.       *)

InputText(t)  == [kind |-> "InputText",  text |-> t]
OutputText(t) == [kind |-> "OutputText", text |-> t]
InputImage    == [kind |-> "InputImage", text |-> <<>>]

Message(role, content) == [variant |-> "Message", role |-> role, content |-> content]
\* Any ResponseItem variant other than Message.
OtherItem == [variant |-> "Other", role |-> "", content |-> <<>>]
NoItem    == [variant |-> "None",  role |-> "", content |-> <<>>]

\* Items a stream delivers in OutputItemAdded / OutputItemDone.
StreamItems ==
    { Message("assistant", << OutputText(<<"a">>) >>),
      Message("assistant", << InputText(<<"b">>), InputImage, OutputText(<<"a">>) >>),
      Message("assistant", << InputImage >>),
      Message("user",      << OutputText(<<"a">>) >>) }

\* Option<String>
None    == [some |-> FALSE, text |-> <<>>]
Some(t) == [some |-> TRUE,  text |-> t]
\* assistant_text has not returned yet.
NotExtracted == [some |-> FALSE, text |-> << "pending" >>]

\* The text accumulated by the `for chunk in content` loop.
RECURSIVE ChunkText(_)
ChunkText(content) ==
    IF content = <<>> THEN <<>>
    ELSE LET chunk == Head(content) IN
         (IF chunk.kind \in {"InputText", "OutputText"} THEN chunk.text ELSE <<>>)
             \o ChunkText(Tail(content))

\* Mutant of assistant_text: only OutputText chunks are collected.
assistant_text_output_only(item) ==
    IF item.variant = "Message" /\ item.role = "assistant"
    THEN LET text == ChunkText(SelectSeq(item.content,
                                         LAMBDA chunk : chunk.kind = "OutputText")) IN
         IF text # <<>> THEN Some(text) ELSE None
    ELSE None

assistant_text(item) ==
    IF item.variant = "Message" /\ item.role = "assistant"
    THEN LET text == ChunkText(item.content) IN
         IF text # <<>> THEN Some(text) ELSE None
    ELSE None

----------------------------------------------------------------------------
(* codex_protocol::protocol::TokenUsage and print_token_usage.             *)

NoUsage == [present |-> FALSE, total_tokens |-> 0, input_tokens |-> 0,
            cached_input_tokens |-> 0, output_tokens |-> 0,
            reasoning_output_tokens |-> 0]
SomeUsage == [present |-> TRUE, total_tokens |-> 5, input_tokens |-> 3,
              cached_input_tokens |-> 1, output_tokens |-> 2,
              reasoning_output_tokens |-> 1]
\* Option<TokenUsage> values of a Completed event.
TokenUsages == { NoUsage, SomeUsage }

\* The line print_token_usage writes to stderr.
print_token_usage(usage) ==
    << "Token usage: total=", ToString(usage.total_tokens),
       " input=", ToString(usage.input_tokens),
       " cached_input=", ToString(usage.cached_input_tokens),
       " output=", ToString(usage.output_tokens),
       " reasoning_output=", ToString(usage.reasoning_output_tokens), NL >>

\* Debug rendering of the one rate-limit snapshot the model delivers.
RateLimitSnapshots == { "RateLimitSnapshot { .. }" }

----------------------------------------------------------------------------
(* PromptCli, standard input and read_prompt.                              *)

\* Literal PROMPT arguments.
Prompts == { <<"-">>, <<>>, <<"h", "i">>, <<" ">> }

\* --system overrides.
SystemPrompts == { <<"Be terse.">> }

DEFAULT_SYSTEM_PROMPT ==
    << "You are a helpful assistant. Respond directly to the user request without running tools or shell commands." >>

\* clap: `--models` conflicts with PROMPT.
PromptClis ==
    { c \in [prompt : {None} \cup {Some(p) : p \in Prompts},
             list_models : BOOLEAN,
             system_prompt : {None} \cup {Some(t) : t \in SystemPrompts}] :
        c.list_models => ~c.prompt.some }

\* What standard input holds; `valid` is FALSE when read_to_string fails.
StdinContents == { <<>>, <<" ", NL>>, <<"h", "i", NL>>, <<" ", "h", " ">> }
Stdins ==
    { [is_terminal |-> t, data |-> d, valid |-> TRUE] :
          t \in BOOLEAN, d \in StdinContents }
    \cup { [is_terminal |-> t, data |-> <<>>, valid |-> FALSE] : t \in BOOLEAN }

\* The cli and stdin of a run that drives consume_stream directly.
NoCli   == [prompt |-> None, list_models |-> FALSE, system_prompt |-> None]
NoStdin == [is_terminal |-> TRUE, data |-> <<>>, valid |-> TRUE]

Whitespace == { " ", NL, CR, "\t" }

\* str::trim
RECURSIVE TrimStart(_)
TrimStart(t) ==
    IF t # <<>> /\ Head(t) \in Whitespace THEN TrimStart(Tail(t)) ELSE t
RECURSIVE TrimEnd(_)
TrimEnd(t) ==
    IF t # <<>> /\ Last(t) \in Whitespace THEN TrimEnd(SubSeq(t, 1, Len(t) - 1)) ELSE t
Trim(t) == TrimEnd(TrimStart(t))

\* anyhow::Result<String>
Ok(t)    == [ok |-> TRUE,  value |-> t,    error |-> ""]
Err(msg) == [ok |-> FALSE, value |-> <<>>, error |-> msg]

\* What one call of read_prompt does: its result, whether it asked
\* is_terminal, whether it read standard input, and what it wrote to stderr.
Effect(res, checked, read, diag) ==
    [result |-> res, checked |-> checked, read |-> read, diag |-> diag]

\* Mutant of read_prompt: an empty literal prompt is treated as absent.
read_prompt_empty_as_absent(prompt, in) ==
    IF prompt.some /\ prompt.text # <<"-">> /\ prompt.text # <<>>
    THEN Effect(Ok(prompt.text), FALSE, FALSE, <<>>)
    ELSE LET force_stdin == prompt.some /\ prompt.text = <<"-">>
             diag == IF force_stdin THEN <<>>
                     ELSE << "Reading prompt from stdin...", NL >>
         IN  IF in.is_terminal /\ ~force_stdin
             THEN Effect(Err("No prompt provided. Pass one as an argument or pipe it via stdin."),
                         TRUE, FALSE, <<>>)
             ELSE IF ~in.valid
             THEN Effect(Err("Failed to read prompt from stdin"), TRUE, TRUE, diag)
             ELSE IF Trim(in.data) = <<>>
             THEN Effect(Err("No prompt provided via stdin."), TRUE, TRUE, diag)
             ELSE Effect(Ok(in.data), TRUE, TRUE, diag)

\* Mutant of read_prompt: the "-" sentinel does not override the terminal test.
read_prompt_ignores_sentinel(prompt, in) ==
    IF prompt.some /\ prompt.text # <<"-">>
    THEN Effect(Ok(prompt.text), FALSE, FALSE, <<>>)
    ELSE LET force_stdin == prompt.some /\ prompt.text = <<"-">>
             diag == IF force_stdin THEN <<>>
                     ELSE << "Reading prompt from stdin...", NL >>
         IN  IF in.is_terminal
             THEN Effect(Err("No prompt provided. Pass one as an argument or pipe it via stdin."),
                         TRUE, FALSE, <<>>)
             ELSE IF ~in.valid
             THEN Effect(Err("Failed to read prompt from stdin"), TRUE, TRUE, diag)
             ELSE IF Trim(in.data) = <<>>
             THEN Effect(Err("No prompt provided via stdin."), TRUE, TRUE, diag)
             ELSE Effect(Ok(in.data), TRUE, TRUE, diag)

\* Mutant of read_prompt: the buffer is tested with is_empty() without trim().
read_prompt_no_trim(prompt, in) ==
    IF prompt.some /\ prompt.text # <<"-">>
    THEN Effect(Ok(prompt.text), FALSE, FALSE, <<>>)
    ELSE LET force_stdin == prompt.some /\ prompt.text = <<"-">>
             diag == IF force_stdin THEN <<>>
                     ELSE << "Reading prompt from stdin...", NL >>
         IN  IF in.is_terminal /\ ~force_stdin
             THEN Effect(Err("No prompt provided. Pass one as an argument or pipe it via stdin."),
                         TRUE, FALSE, <<>>)
             ELSE IF ~in.valid
             THEN Effect(Err("Failed to read prompt from stdin"), TRUE, TRUE, diag)
             ELSE IF in.data = <<>>
             THEN Effect(Err("No prompt provided via stdin."), TRUE, TRUE, diag)
             ELSE Effect(Ok(in.data), TRUE, TRUE, diag)

read_prompt(prompt, in) ==
    IF prompt.some /\ prompt.text # <<"-">>
    THEN Effect(Ok(prompt.text), FALSE, FALSE, <<>>)
    ELSE LET force_stdin == prompt.some /\ prompt.text = <<"-">>
             diag == IF force_stdin THEN <<>>
                     ELSE << "Reading prompt from stdin...", NL >>
         IN  IF in.is_terminal /\ ~force_stdin
             THEN Effect(Err("No prompt provided. Pass one as an argument or pipe it via stdin."),
                         TRUE, FALSE, <<>>)
             ELSE IF ~in.valid
             THEN Effect(Err("Failed to read prompt from stdin"), TRUE, TRUE, diag)
             ELSE IF Trim(in.data) = <<>>
             THEN Effect(Err("No prompt provided via stdin."), TRUE, TRUE, diag)
             ELSE Effect(Ok(in.data), TRUE, TRUE, diag)

----------------------------------------------------------------------------
(* print_models and build_prompt_inputs.                                   *)

Preset(model, is_default, efforts) ==
    [model |-> model, is_default |-> is_default,
     description |-> "A model.",
     default_reasoning_effort |-> "medium",
     supported_reasoning_efforts |-> efforts]

Effort(e) == [effort |-> e, description |-> "An effort."]

\* What builtin_model_presets may return.
PresetCatalogs ==
    { <<>>,
      << Preset("m1", TRUE, << Effort("low"), Effort("high") >>) >>,
      << Preset("m1", TRUE, << Effort("low") >>), Preset("m2", FALSE, <<>>) >> }

RECURSIVE EffortLines(_)
EffortLines(options) ==
    IF options = <<>> THEN <<>>
    ELSE << "      - ", Head(options).effort, ": ", Head(options).description, NL >>
             \o EffortLines(Tail(options))

RECURSIVE PresetLines(_)
PresetLines(presets) ==
    IF presets = <<>> THEN <<>>
    ELSE LET preset == Head(presets)
             default_marker == IF preset.is_default THEN " (default)" ELSE ""
         IN  << "  ", preset.model, default_marker, " - ", preset.description, NL,
                "    Default reasoning effort: ", preset.default_reasoning_effort, NL >>
             \o (IF preset.supported_reasoning_efforts # <<>>
                 THEN << "    Supported reasoning efforts:", NL >>
                          \o EffortLines(preset.supported_reasoning_efforts)
                 ELSE <<>>)
             \o PresetLines(Tail(presets))

\* The tokens print_models writes to stdout.
print_models(presets) ==
    IF presets = <<>>
    THEN << "No models are currently available.", NL >>
    ELSE << "Available models:", NL >> \o PresetLines(presets)

\* Mutant of build_prompt_inputs: the user message comes first.
build_prompt_inputs_user_first(system_prompt, text) ==
    << Message("user",      << InputText(text) >>),
       Message("developer", << InputText(system_prompt) >>) >>

build_prompt_inputs(system_prompt, text) ==
    << Message("developer", << InputText(system_prompt) >>),
       Message("user",      << InputText(text) >>) >>

----------------------------------------------------------------------------
VARIABLES
    pc,                     \* consume_stream: "idle" (not called), "running" or "returned"
    stdout,                 \* tokens written to the primary sink
    stderr,                 \* tokens written to the secondary sink
    printed_response,       \* consume_stream local
    reasoning_summary_line, \* consume_stream local
    consumed,               \* what stream.next() has yielded so far, in order
    result,                 \* consume_stream: "pending", "Ok" or the error returned
    cli,                    \* the parsed PromptCli
    stdin,                  \* standard input: is_terminal, data, valid (UTF-8, readable)
    stdin_reads,            \* calls of stdin().read_to_string so far
    terminal_checks,        \* calls of stdin().is_terminal so far
    phase,                  \* position in run_prompt_command
    prompt_text,            \* run_prompt_command local, Option<String>
    input,                  \* prompt.input handed to ModelClient::stream
    outcome,                \* how the process ends: "pending", "Ok", "exit(1)" or an error
    login,                  \* enforce_login_restrictions: "pending", "Ok" or its error
    extract_item,           \* assistant_text: its argument
    extracted               \* assistant_text: "pending", or the Option<String> returned

vars == << pc, stdout, stderr, printed_response, reasoning_summary_line,
           consumed, result, cli, stdin, stdin_reads, terminal_checks, phase,
           prompt_text, input, outcome, login, extract_item, extracted >>

\* The state of run_prompt_command outside consume_stream and the sinks.
cmdvars == << cli, stdin, stdin_reads, terminal_checks, phase, prompt_text,
              input, outcome, login >>

\* The state of a call of assistant_text on its own.
textvars == << extract_item, extracted >>

\* The stream's length bound for the way consume_stream was reached.
EventCap == IF phase = "direct" THEN MaxEvents ELSE MaxCmdEvents

\* One element of `consumed`.
Ev(type, text, item, usage, err) ==
    [type |-> type, text |-> text, item |-> item, usage |-> usage, err |-> err]

\* `while let Some(event) = stream.next().await` yields one more event.
Pull(ev) ==
    /\ pc = "running"
    /\ Len(consumed) < EventCap
    /\ consumed' = Append(consumed, ev)
    /\ UNCHANGED << cmdvars, textvars >>

----------------------------------------------------------------------------
(* consume_stream: one action per match arm.                               *)

Init ==
    /\ pc = "running"
    /\ stdout = <<>>
    /\ stderr = <<>>
    /\ printed_response = FALSE
    /\ reasoning_summary_line = <<>>
    /\ consumed = <<>>
    /\ result = "pending"
    /\ cli = NoCli
    /\ stdin = NoStdin
    /\ stdin_reads = 0
    /\ terminal_checks = 0
    /\ phase = "direct"
    /\ prompt_text = None
    /\ input = <<>>
    /\ outcome = "pending"
    /\ login = "pending"
    /\ extract_item = NoItem
    /\ extracted = NotExtracted

Created ==
    /\ Pull(Ev("Created", <<>>, NoItem, NoUsage, ""))
    /\ UNCHANGED << pc, stdout, stderr, printed_response,
                    reasoning_summary_line, result >>

\* Mutant of OutputTextDelta: a delta that follows a Completed is dropped.
OutputTextDeltaDroppedAfterCompleted(delta) ==
    /\ Pull(Ev("OutputTextDelta", delta, NoItem, NoUsage, ""))
    /\ IF \E i \in 1..Len(consumed) : consumed[i].type = "Completed"
       THEN UNCHANGED << stdout, printed_response >>
       ELSE /\ stdout' = stdout \o delta
            /\ printed_response' = TRUE
    /\ UNCHANGED << pc, stderr, reasoning_summary_line, result >>

OutputTextDelta(delta) ==
    /\ Pull(Ev("OutputTextDelta", delta, NoItem, NoUsage, ""))
    /\ stdout' = stdout \o delta
    /\ printed_response' = TRUE
    /\ UNCHANGED << pc, stderr, reasoning_summary_line, result >>

\* Mutant of OutputItem: the `!printed_response` test is dropped.
OutputItemAlwaysPrints(type, item) ==
    /\ Pull(Ev(type, <<>>, item, NoUsage, ""))
    /\ LET text == assistant_text(item) IN
       IF text.some
       THEN /\ stdout' = stdout \o text.text
            /\ printed_response' = TRUE
       ELSE UNCHANGED << stdout, printed_response >>
    /\ UNCHANGED << pc, stderr, reasoning_summary_line, result >>

\* type is "OutputItemAdded" or "OutputItemDone": the two share one arm.
OutputItem(type, item) ==
    /\ Pull(Ev(type, <<>>, item, NoUsage, ""))
    /\ LET text == assistant_text(item) IN
       IF text.some /\ ~printed_response
       THEN /\ stdout' = stdout \o text.text
            /\ printed_response' = TRUE
       ELSE UNCHANGED << stdout, printed_response >>
    /\ UNCHANGED << pc, stderr, reasoning_summary_line, result >>

\* Mutant of ReasoningSummaryDelta: only the new fragment is rendered.
ReasoningSummaryDeltaFragmentOnly(text) ==
    /\ Pull(Ev("ReasoningSummaryDelta", text, NoItem, NoUsage, ""))
    /\ reasoning_summary_line' = reasoning_summary_line \o text
    /\ stderr' = stderr \o << CR, "(reasoning summary) " >> \o text
    /\ UNCHANGED << pc, stdout, printed_response, result >>

ReasoningSummaryDelta(text) ==
    /\ Pull(Ev("ReasoningSummaryDelta", text, NoItem, NoUsage, ""))
    /\ reasoning_summary_line' = reasoning_summary_line \o text
    /\ stderr' = stderr \o << CR, "(reasoning summary) " >> \o reasoning_summary_line'
    /\ UNCHANGED << pc, stdout, printed_response, result >>

\* Mutant of ReasoningContentDelta: println! in place of eprintln!.
ReasoningContentDeltaToStdout(text) ==
    /\ Pull(Ev("ReasoningContentDelta", text, NoItem, NoUsage, ""))
    /\ stdout' = stdout \o << "(reasoning detail) " >> \o text \o << NL >>
    /\ UNCHANGED << pc, stderr, printed_response, reasoning_summary_line, result >>

ReasoningContentDelta(text) ==
    /\ Pull(Ev("ReasoningContentDelta", text, NoItem, NoUsage, ""))
    /\ stderr' = stderr \o << "(reasoning detail) " >> \o text \o << NL >>
    /\ UNCHANGED << pc, stdout, printed_response, reasoning_summary_line, result >>

ReasoningSummaryPartAdded ==
    /\ Pull(Ev("ReasoningSummaryPartAdded", <<>>, NoItem, NoUsage, ""))
    /\ IF reasoning_summary_line # <<>>
       THEN /\ stderr' = Append(stderr, NL)
            /\ reasoning_summary_line' = <<>>
       ELSE UNCHANGED << stderr, reasoning_summary_line >>
    /\ UNCHANGED << pc, stdout, printed_response, result >>

RateLimits(snapshot) ==
    /\ Pull(Ev("RateLimits", <<>>, NoItem, NoUsage, ""))
    /\ stderr' = stderr \o << "Rate limits: ", snapshot, NL >>
    /\ UNCHANGED << pc, stdout, printed_response, reasoning_summary_line, result >>

\* One write_all / eprintln! of a match arm: the sink and the tokens written.
Write(sink, tokens) == [sink |-> sink, tokens |-> tokens]

\* The tokens that a sequence of writes sends to one sink.
RECURSIVE Written(_, _)
Written(sink, writes) ==
    IF writes = <<>> THEN <<>>
    ELSE (IF Head(writes).sink = sink THEN Head(writes).tokens ELSE <<>>)
             \o Written(sink, Tail(writes))

\* Mutant of CompletedWrites: the token usage is printed before the newlines.
CompletedWritesUsageFirst(line, printed, token_usage) ==
    (IF token_usage.present
     THEN << Write("stderr", print_token_usage(token_usage)) >> ELSE <<>>)
    \o (IF line # <<>> THEN << Write("stderr", << NL >>) >> ELSE <<>>)
    \o (IF printed THEN << Write("stdout", << NL >>) >> ELSE <<>>)

\* The writes of the Completed arm, in program order.
CompletedWrites(line, printed, token_usage) ==
    (IF line # <<>> THEN << Write("stderr", << NL >>) >> ELSE <<>>)
    \o (IF printed THEN << Write("stdout", << NL >>) >> ELSE <<>>)
    \o (IF token_usage.present
        THEN << Write("stderr", print_token_usage(token_usage)) >> ELSE <<>>)

\* Mutant of Completed: printed_response is not reset after the newline.
CompletedNoReset(token_usage) ==
    /\ Pull(Ev("Completed", <<>>, NoItem, token_usage, ""))
    /\ reasoning_summary_line' = <<>>
    /\ stdout' = IF printed_response THEN Append(stdout, NL) ELSE stdout
    /\ printed_response' = printed_response
    /\ stderr' = stderr
                 \o (IF reasoning_summary_line # <<>> THEN << NL >> ELSE <<>>)
                 \o (IF token_usage.present THEN print_token_usage(token_usage)
                     ELSE <<>>)
    /\ UNCHANGED << pc, result >>

Completed(token_usage) ==
    /\ Pull(Ev("Completed", <<>>, NoItem, token_usage, ""))
    /\ LET writes == CompletedWrites(reasoning_summary_line, printed_response,
                                     token_usage) IN
       /\ stdout' = stdout \o Written("stdout", writes)
       /\ stderr' = stderr \o Written("stderr", writes)
    /\ reasoning_summary_line' = <<>>
    /\ printed_response' = FALSE
    /\ UNCHANGED << pc, result >>

\* Mutant of TransportError: the error leaves the loop with `break`, so the
\* code after the loop still runs before the error is returned.
TransportErrorBreak(err) ==
    /\ Pull(Ev("Error", <<>>, NoItem, NoUsage, err))
    /\ stdout' = IF printed_response THEN Append(stdout, NL) ELSE stdout
    /\ stderr' = IF reasoning_summary_line # <<>> THEN Append(stderr, NL) ELSE stderr
    /\ pc' = "returned"
    /\ result' = err
    /\ UNCHANGED << printed_response, reasoning_summary_line >>

\* `event?` on an Err item: consume_stream returns the error at once.
TransportError(err) ==
    /\ Pull(Ev("Error", <<>>, NoItem, NoUsage, err))
    /\ pc' = "returned"
    /\ result' = err
    /\ UNCHANGED << stdout, stderr, printed_response, reasoning_summary_line >>

\* Mutant of Exhausted: the trailing newline on stdout is left out.
ExhaustedNoNewline ==
    /\ pc = "running"
    /\ stdout' = stdout
    /\ stderr' = IF reasoning_summary_line # <<>> THEN Append(stderr, NL) ELSE stderr
    /\ pc' = "returned"
    /\ result' = "Ok"
    /\ UNCHANGED << printed_response, reasoning_summary_line, consumed >>
    /\ UNCHANGED << cmdvars, textvars >>

\* Mutant of Exhausted: the trailing newline is written unconditionally.
ExhaustedAlwaysNewline ==
    /\ pc = "running"
    /\ stdout' = Append(stdout, NL)
    /\ stderr' = IF reasoning_summary_line # <<>> THEN Append(stderr, NL) ELSE stderr
    /\ pc' = "returned"
    /\ result' = "Ok"
    /\ UNCHANGED << printed_response, reasoning_summary_line, consumed >>
    /\ UNCHANGED << cmdvars, textvars >>

\* stream.next() yields None: the code after the loop, then Ok(()).
Exhausted ==
    /\ pc = "running"
    /\ stdout' = IF printed_response THEN Append(stdout, NL) ELSE stdout
    /\ stderr' = IF reasoning_summary_line # <<>> THEN Append(stderr, NL) ELSE stderr
    /\ pc' = "returned"
    /\ result' = "Ok"
    /\ UNCHANGED << printed_response, reasoning_summary_line, consumed >>
    /\ UNCHANGED << cmdvars, textvars >>

Next ==
    \/ Created
    \/ \E delta \in Fragments : OutputTextDelta(delta)
    \/ \E type \in {"OutputItemAdded", "OutputItemDone"}, item \in StreamItems :
          OutputItem(type, item)
    \/ \E text \in Fragments : ReasoningSummaryDelta(text)
    \/ \E text \in Fragments : ReasoningContentDelta(text)
    \/ ReasoningSummaryPartAdded
    \/ \E snapshot \in RateLimitSnapshots : RateLimits(snapshot)
    \/ \E token_usage \in TokenUsages : Completed(token_usage)
    \/ \E err \in TransportErrors : TransportError(err)
    \/ Exhausted

Spec == Init /\ [][Next]_vars

----------------------------------------------------------------------------
(* run_prompt_command, one action per step.                                *)

\* External failures the command can meet.
ConfigErrors == { "ConfigError" }
LoginErrors  == { "LoginRestricted" }

consumervars == << pc, printed_response, reasoning_summary_line, consumed, result >>

InitCmd ==
    /\ pc = "idle"
    /\ stdout = <<>>
    /\ stderr = <<>>
    /\ printed_response = FALSE
    /\ reasoning_summary_line = <<>>
    /\ consumed = <<>>
    /\ result = "pending"
    /\ cli \in PromptClis
    /\ stdin \in Stdins
    /\ stdin_reads = 0
    /\ terminal_checks = 0
    /\ phase = "read_prompt"
    /\ prompt_text = None
    /\ input = <<>>
    /\ outcome = "pending"
    /\ login = "pending"
    /\ extract_item = NoItem
    /\ extracted = NotExtracted

\* `Some(read_prompt(cli.prompt.clone())?)`
ReadPrompt ==
    /\ phase = "read_prompt"
    /\ ~cli.list_models
    /\ LET e == read_prompt(cli.prompt, stdin) IN
       /\ terminal_checks' = terminal_checks + (IF e.checked THEN 1 ELSE 0)
       /\ stdin_reads' = stdin_reads + (IF e.read THEN 1 ELSE 0)
       /\ stderr' = stderr \o e.diag
       /\ IF e.result.ok
          THEN /\ prompt_text' = Some(e.result.value)
               /\ phase' = "load_config"
               /\ outcome' = outcome
          ELSE /\ prompt_text' = prompt_text
               /\ phase' = "done"
               /\ outcome' = e.result.error
    /\ UNCHANGED << stdout, consumervars, cli, stdin, input >>
    /\ UNCHANGED << login, textvars >>

\* Mutant of SkipPrompt: read_prompt is called in list-models mode too.
SkipPromptReads ==
    /\ phase = "read_prompt"
    /\ cli.list_models
    /\ LET e == read_prompt(cli.prompt, stdin) IN
       /\ terminal_checks' = terminal_checks + (IF e.checked THEN 1 ELSE 0)
       /\ stdin_reads' = stdin_reads + (IF e.read THEN 1 ELSE 0)
       /\ stderr' = stderr \o e.diag
       /\ IF e.result.ok
          THEN /\ prompt_text' = Some(e.result.value)
               /\ phase' = "load_config"
               /\ outcome' = outcome
          ELSE /\ prompt_text' = prompt_text
               /\ phase' = "done"
               /\ outcome' = e.result.error
    /\ UNCHANGED << stdout, consumervars, cli, stdin, input >>
    /\ UNCHANGED << login, textvars >>

\* `if cli.list_models { None }`
SkipPrompt ==
    /\ phase = "read_prompt"
    /\ cli.list_models
    /\ prompt_text' = None
    /\ phase' = "load_config"
    /\ UNCHANGED << stdout, stderr, consumervars, cli, stdin, stdin_reads,
                    terminal_checks, input, outcome >>
    /\ UNCHANGED << login, textvars >>

\* `load_config(&cli).await?`, ok or not.
LoadConfig(loaded) ==
    /\ phase = "load_config"
    /\ IF loaded = "Ok"
       THEN /\ phase' = IF cli.list_models THEN "list_models" ELSE "login_check"
            /\ outcome' = outcome
       ELSE /\ phase' = "done"
            /\ outcome' = loaded
    /\ UNCHANGED << stdout, stderr, consumervars, cli, stdin, stdin_reads,
                    terminal_checks, prompt_text, input >>
    /\ UNCHANGED << login, textvars >>

\* `print_models(...); return Ok(())`
ListModels(presets) ==
    /\ phase = "list_models"
    /\ stdout' = stdout \o print_models(presets)
    /\ phase' = "done"
    /\ outcome' = "Ok"
    /\ UNCHANGED << stderr, consumervars, cli, stdin, stdin_reads,
                    terminal_checks, prompt_text, input >>
    /\ UNCHANGED << login, textvars >>

\* Mutant of EnforceLogin: a failed check is reported and the run goes on.
EnforceLoginAdvisory(checked) ==
    /\ phase = "login_check"
    /\ IF checked = "Ok"
       THEN /\ phase' = "run_prompt"
            /\ UNCHANGED << stderr, outcome >>
       ELSE /\ stderr' = stderr \o << checked, NL >>
            /\ phase' = "run_prompt"
            /\ outcome' = outcome
    /\ UNCHANGED << stdout, consumervars, cli, stdin, stdin_reads,
                    terminal_checks, prompt_text, input >>
    /\ login' = checked
    /\ UNCHANGED textvars

\* `enforce_login_restrictions(&config).await`, ok or not.
EnforceLogin(checked) ==
    /\ phase = "login_check"
    /\ IF checked = "Ok"
       THEN /\ phase' = "run_prompt"
            /\ UNCHANGED << stderr, outcome >>
       ELSE /\ stderr' = stderr \o << checked, NL >>
            /\ phase' = "done"
            /\ outcome' = "exit(1)"
    /\ UNCHANGED << stdout, consumervars, cli, stdin, stdin_reads,
                    terminal_checks, prompt_text, input >>
    /\ login' = checked
    /\ UNCHANGED textvars

\* `prompt_text.ok_or_else(..)?` and run_prompt up to the opened stream;
\* opened is "Ok" or the error ModelClient::stream fails with.
RunPrompt(opened) ==
    /\ phase = "run_prompt"
    /\ IF ~prompt_text.some
       THEN /\ phase' = "done"
            /\ outcome' = "prompt is required"
            /\ UNCHANGED << input, pc >>
       ELSE /\ input' = build_prompt_inputs(
                            IF cli.system_prompt.some THEN cli.system_prompt.text
                            ELSE DEFAULT_SYSTEM_PROMPT,
                            prompt_text.text)
            /\ IF opened = "Ok"
               THEN /\ pc' = "running"
                    /\ phase' = "consume"
                    /\ outcome' = outcome
               ELSE /\ pc' = pc
                    /\ phase' = "done"
                    /\ outcome' = opened
    /\ UNCHANGED << stdout, stderr, printed_response, reasoning_summary_line,
                    consumed, result, cli, stdin, stdin_reads, terminal_checks,
                    prompt_text >>
    /\ UNCHANGED << login, textvars >>

\* `consume_stream(&mut stream).await` has returned: its result is the command's.
Finish ==
    /\ phase = "consume"
    /\ pc = "returned"
    /\ phase' = "done"
    /\ outcome' = result
    /\ UNCHANGED << stdout, stderr, consumervars, cli, stdin, stdin_reads,
                    terminal_checks, prompt_text, input >>
    /\ UNCHANGED << login, textvars >>

NextCmd ==
    \/ ReadPrompt
    \/ SkipPrompt
    \/ \E loaded \in {"Ok"} \cup ConfigErrors : LoadConfig(loaded)
    \/ \E presets \in PresetCatalogs : ListModels(presets)
    \/ \E checked \in {"Ok"} \cup LoginErrors : EnforceLogin(checked)
    \/ \E opened \in {"Ok"} \cup TransportErrors : RunPrompt(opened)
    \/ Next
    \/ Finish

SpecCmd == InitCmd /\ [][NextCmd]_vars

----------------------------------------------------------------------------
(* assistant_text called on its own, on one item.                          *)

Roles == { "assistant", "user", "developer" }

ContentItems ==
    { InputText(t) : t \in Fragments } \cup { OutputText(t) : t \in Fragments }
        \cup { InputImage }

\* The items assistant_text is called on.
ExtractItems ==
    { Message(role, content) :
          role \in Roles,
          content \in UNION { [1..n -> ContentItems] : n \in 0..MaxContent } }
    \cup { OtherItem }

InitText ==
    /\ pc = "idle"
    /\ stdout = <<>>
    /\ stderr = <<>>
    /\ printed_response = FALSE
    /\ reasoning_summary_line = <<>>
    /\ consumed = <<>>
    /\ result = "pending"
    /\ cli = NoCli
    /\ stdin = NoStdin
    /\ stdin_reads = 0
    /\ terminal_checks = 0
    /\ phase = "assistant_text"
    /\ prompt_text = None
    /\ input = <<>>
    /\ outcome = "pending"
    /\ login = "pending"
    /\ extract_item \in ExtractItems
    /\ extracted = NotExtracted

\* `assistant_text(&item)` returns.
Extract ==
    /\ phase = "assistant_text"
    /\ extracted' = assistant_text(extract_item)
    /\ phase' = "extracted"
    /\ UNCHANGED << pc, stdout, stderr, printed_response, reasoning_summary_line,
                    consumed, result, cli, stdin, stdin_reads, terminal_checks,
                    prompt_text, input, outcome, login, extract_item >>

NextText == Extract

SpecText == InitText /\ [][NextText]_vars

----------------------------------------------------------------------------
(* Properties of consume_stream, stated over the events pulled so far.     *)

ReturnedOk == pc = "returned" /\ result = "Ok"

\* This step pulled one more item from the stream.
Pulled == Len(consumed') = Len(consumed) + 1

ItemEventTypes == {"OutputItemAdded", "OutputItemDone"}

\* The fragments of the events of type `type` in evs, concatenated in order.
RECURSIVE TextOf(_, _)
TextOf(type, evs) ==
    IF evs = <<>> THEN <<>>
    ELSE (IF Head(evs).type = type THEN Head(evs).text ELSE <<>>)
             \o TextOf(type, Tail(evs))

\* The events of evs after its last part-boundary or completion.
RECURSIVE SinceBoundary(_)
SinceBoundary(evs) ==
    IF evs = <<>> THEN <<>>
    ELSE IF Last(evs).type \in {"ReasoningSummaryPartAdded", "Completed"} THEN <<>>
    ELSE Append(SinceBoundary(SubSeq(evs, 1, Len(evs) - 1)), Last(evs))

\* The summary fragments received since the last part-boundary or completion.
SummarySince(evs) == TextOf("ReasoningSummaryDelta", SinceBoundary(evs))

\* Positions of the item events that carry assistant text.
TextItems(evs) ==
    { i \in 1..Len(evs) : /\ evs[i].type \in ItemEventTypes
                          /\ assistant_text(evs[i].item).some }

\* The tokens of s after its last NL: the line the cursor is on.
RECURSIVE OpenLine(_)
OpenLine(s) ==
    IF s = <<>> \/ Last(s) = NL THEN <<>>
    ELSE Append(OpenLine(SubSeq(s, 1, Len(s) - 1)), Last(s))

\* C1: when consume_stream returns Ok and anything was written to the
\* primary sink, the last byte written to it is a newline.
C1_PrimaryEndsWithNewline ==
    (ReturnedOk /\ stdout # <<>>) => Last(stdout) = NL

\* C1 witness: answer text was still open at exhaustion, which closed it.
C1_Witness ==
    /\ ReturnedOk
    /\ printed_response
    /\ Len(stdout) >= 2
    /\ Last(consumed).type # "Completed"

\* C2 (as claimed): when consume_stream returns Ok the secondary sink does not
\* end in an unterminated line, whatever fragments the summary deltas carried.
C2_SecondaryEndsWithNewline ==
    ReturnedOk => (stderr = <<>> \/ Last(stderr) = NL)

\* C3 (as claimed): once a non-empty output-text-delta has been streamed, no
\* item event writes to the primary sink, a completion in between or not.
C3_NoItemTextAfterDelta ==
    [][ ( /\ Pulled
          /\ Last(consumed').type \in ItemEventTypes
          /\ TextOf("OutputTextDelta", consumed) # <<>> )
        => stdout' = stdout ]_vars

\* The sequences of C4: an optional Created, one or more OutputTextDelta,
\* and a final Completed without token usage.
IsDeltasThenCompleted(evs) ==
    LET first == IF evs # <<>> /\ evs[1].type = "Created" THEN 2 ELSE 1 IN
    /\ Len(evs) > first
    /\ \A i \in first..(Len(evs) - 1) : evs[i].type = "OutputTextDelta"
    /\ Last(evs).type = "Completed"
    /\ ~Last(evs).usage.present

\* C4: for [Created?, OutputTextDelta+, Completed(no usage)] the primary sink
\* holds exactly the fragments in arrival order and one newline, and the
\* secondary sink holds nothing.
C4_DeltasThenCompleted ==
    (ReturnedOk /\ IsDeltasThenCompleted(consumed)) =>
        /\ stdout = Append(TextOf("OutputTextDelta", consumed), NL)
        /\ stderr = <<>>

\* C4 witness: two different non-empty fragments, then the completion.
C4_Witness ==
    /\ ReturnedOk
    /\ IsDeltasThenCompleted(consumed)
    /\ \E i \in 1..Len(consumed) :
          /\ i + 1 < Len(consumed)
          /\ consumed[i].text # <<>>
          /\ consumed[i + 1].text # <<>>
          /\ consumed[i].text # consumed[i + 1].text

\* The sequences of C5: no OutputTextDelta, no error, one Completed, which is
\* last, and before it at least one item event carrying assistant text.
IsItemsThenCompleted(evs) ==
    /\ evs # <<>>
    /\ Last(evs).type = "Completed"
    /\ \A i \in 1..(Len(evs) - 1) :
          evs[i].type \notin {"OutputTextDelta", "Completed", "Error"}
    /\ TextItems(evs) # {}

FirstTextItem(evs) ==
    CHOOSE i \in TextItems(evs) : \A j \in TextItems(evs) : i <= j

\* C5: with no deltas and a single final completion, the primary sink holds
\* the text of the first text-bearing item once, then one newline.
C5_FirstItemOnce ==
    (ReturnedOk /\ IsItemsThenCompleted(consumed)) =>
        stdout = Append(assistant_text(consumed[FirstTextItem(consumed)].item).text, NL)

\* C5 witness: two text-bearing items with different text before the completion.
C5_Witness ==
    /\ ReturnedOk
    /\ IsItemsThenCompleted(consumed)
    /\ \E i, j \in TextItems(consumed) :
          /\ i < j
          /\ assistant_text(consumed[i].item) # assistant_text(consumed[j].item)

\* C6: a transport error ends consume_stream in the step that pulls it: the
\* same error is returned, neither sink is written, and no step follows a
\* return.
C6_ErrorAborts ==
    [][ /\ pc = "running"
        /\ (result' \in TransportErrors =>
               /\ Pulled
               /\ Last(consumed').type = "Error"
               /\ result' = Last(consumed').err
               /\ pc' = "returned"
               /\ stdout' = stdout
               /\ stderr' = stderr)
        /\ (Pulled /\ Last(consumed').type = "Error" =>
               result' = Last(consumed').err) ]_vars

\* C6 witness: an error returned while answer text and a summary line are open.
C6_Witness ==
    /\ pc = "returned"
    /\ result \in TransportErrors
    /\ printed_response
    /\ reasoning_summary_line # <<>>
    /\ stdout # <<>>
    /\ Last(stdout) # NL
    /\ Last(stderr) # NL

\* C7: a summary delta writes CR, the "(reasoning summary) " label and all the
\* summary fragments since the last part-boundary or completion; a
\* part-boundary writes one newline and empties the buffer when such
\* fragments exist, and writes nothing otherwise.
C7_SummaryRender ==
    [][ Pulled =>
          /\ (Last(consumed').type = "ReasoningSummaryDelta" =>
                stderr' = stderr \o << CR, "(reasoning summary) " >>
                                 \o SummarySince(consumed'))
          /\ (Last(consumed').type = "ReasoningSummaryPartAdded" =>
                /\ stderr' = IF SummarySince(consumed) # <<>>
                             THEN Append(stderr, NL) ELSE stderr
                /\ reasoning_summary_line' = <<>>) ]_vars

\* C7 witness: two non-empty summary fragments closed by a part-boundary.
C7_Witness ==
    /\ Len(consumed) >= 3
    /\ Last(consumed).type = "ReasoningSummaryPartAdded"
    /\ consumed[Len(consumed) - 1].type = "ReasoningSummaryDelta"
    /\ consumed[Len(consumed) - 1].text # <<>>
    /\ consumed[Len(consumed) - 2].type = "ReasoningSummaryDelta"
    /\ consumed[Len(consumed) - 2].text # <<>>
    /\ Last(stderr) = NL
    /\ reasoning_summary_line = <<>>

\* C8 (as claimed): a reasoning-content-delta starts on a fresh line of the
\* secondary sink, and a summary re-render never lands on a line that holds
\* reasoning detail.
C8_ContentOwnLine ==
    [][ Pulled =>
          /\ (Last(consumed').type = "ReasoningContentDelta" =>
                OpenLine(stderr) = <<>>)
          /\ (Last(consumed').type = "ReasoningSummaryDelta" =>
                \A i \in 1..Len(OpenLine(stderr)) :
                    OpenLine(stderr)[i] # "(reasoning detail) ") ]_vars

\* C9: on a stream that yields nothing, consume_stream writes nothing to
\* either sink and returns Ok.
C9_EmptyStream ==
    (pc = "returned" /\ consumed = <<>>) =>
        /\ stdout = <<>>
        /\ stderr = <<>>
        /\ result = "Ok"

\* C9 witness: consume_stream has returned without pulling any event.
C9_Witness ==
    /\ pc = "returned"
    /\ consumed = <<>>
    /\ ~printed_response

----------------------------------------------------------------------------
(* Properties of read_prompt, as run_prompt_command calls it.              *)

\* read_prompt has been called and run_prompt_command has moved on.
ReadPromptDone == ~cli.list_models /\ phase # "read_prompt"

LiteralPrompt == cli.prompt.some /\ cli.prompt.text # <<"-">>

\* C10: for a literal prompt other than "-", read_prompt returns the prompt
\* verbatim without asking is_terminal, reading standard input, failing or
\* writing a diagnostic, whatever standard input is.
C10_LiteralPromptVerbatim ==
    (ReadPromptDone /\ LiteralPrompt) =>
        /\ prompt_text = Some(cli.prompt.text)
        /\ stdin_reads = 0
        /\ terminal_checks = 0
        /\ \A i \in 1..Len(stderr) : stderr[i] # "Reading prompt from stdin..."
        /\ (phase = "load_config" => stderr = <<>> /\ outcome = "pending")

\* C10 witness: read_prompt has returned an empty literal prompt while
\* standard input was a pipe holding text.
C10_Witness ==
    /\ phase = "load_config"
    /\ cli.prompt = Some(<<>>)
    /\ prompt_text = Some(<<>>)
    /\ ~stdin.is_terminal
    /\ stdin.valid
    /\ Trim(stdin.data) # <<>>

\* The two prompt errors, by the message read_prompt bails with.
NoPromptProvided == "No prompt provided. Pass one as an argument or pipe it via stdin."
EmptyStdinPrompt == "No prompt provided via stdin."

ForceStdin == cli.prompt = Some(<<"-">>)

\* C11 (as claimed): read_prompt fails with NoPromptProvided exactly when
\* standard input is a terminal and the prompt is not the "-" sentinel.
C11_NoPromptIffTerminalNoSentinel ==
    ReadPromptDone =>
        ((outcome = NoPromptProvided) <=> (stdin.is_terminal /\ ~ForceStdin))

\* C11 (amended): read_prompt fails with NoPromptProvided exactly when no
\* prompt argument was given and standard input is a terminal; it has then
\* neither read standard input nor written the diagnostic.
C11_NoPromptIffAbsentOnTerminal ==
    ReadPromptDone =>
        /\ (outcome = NoPromptProvided) <=> (~cli.prompt.some /\ stdin.is_terminal)
        /\ (outcome = NoPromptProvided => stdin_reads = 0 /\ stderr = <<>>)

\* C11 witness: NoPromptProvided on a terminal that had text to give.
C11_Witness ==
    /\ ReadPromptDone
    /\ outcome = NoPromptProvided
    /\ stdin.valid
    /\ Trim(stdin.data) # <<>>

\* Standard input is read exactly for an absent prompt on a pipe, or for "-".
StdinIsRead == (~cli.prompt.some /\ ~stdin.is_terminal) \/ ForceStdin

\* C12 (as claimed): whenever read_prompt reads standard input, it fails with
\* EmptyStdinPrompt exactly when the data trims to nothing, and otherwise
\* returns the data untrimmed.
C12_EmptyIffTrimsToNothing ==
    ReadPromptDone =>
        /\ (stdin_reads > 0) <=> StdinIsRead
        /\ (outcome = EmptyStdinPrompt) => stdin_reads > 0
        /\ (stdin_reads > 0) =>
              IF Trim(stdin.data) = <<>>
              THEN outcome = EmptyStdinPrompt
              ELSE prompt_text = Some(stdin.data)

\* C12 (amended): the same, for every read of standard input that succeeds;
\* a read that fails returns the read error instead.
C12_EmptyIffTrimsToNothingWhenRead ==
    ReadPromptDone =>
        /\ (stdin_reads > 0) <=> StdinIsRead
        /\ stdin_reads <= 1
        /\ (outcome = EmptyStdinPrompt) => (stdin_reads > 0 /\ stdin.valid)
        /\ (stdin_reads > 0 /\ stdin.valid) =>
              IF Trim(stdin.data) = <<>>
              THEN outcome = EmptyStdinPrompt /\ ~prompt_text.some
              ELSE prompt_text = Some(stdin.data) /\ outcome # EmptyStdinPrompt
        /\ (stdin_reads > 0 /\ ~stdin.valid) =>
              outcome = "Failed to read prompt from stdin"

\* C12 witness: piped whitespace was read and refused.
C12_Witness ==
    /\ ReadPromptDone
    /\ stdin_reads = 1
    /\ stdin.data = << " ", NL >>
    /\ outcome = EmptyStdinPrompt

----------------------------------------------------------------------------
(* Properties of run_prompt_command.                                       *)

\* C13: a failed login-restriction check ends the run at once: its message
\* is the last line on stderr, the process exits with status 1, no request
\* payload is built, no stream is opened and consume_stream never runs; a
\* payload or a stream exists only after the check has succeeded.
C13_LoginGate ==
    /\ (login \in LoginErrors) =>
          /\ phase = "done"
          /\ outcome = "exit(1)"
          /\ Len(stderr) >= 2
          /\ stderr[Len(stderr) - 1] = login
          /\ Last(stderr) = NL
          /\ input = <<>>
          /\ pc = "idle"
          /\ consumed = <<>>
          /\ stdout = <<>>
    /\ (pc # "idle" \/ input # <<>>) => login = "Ok"

\* C13 witness: the check failed after a prompt had been read from a pipe.
C13_Witness ==
    /\ login \in LoginErrors
    /\ prompt_text.some
    /\ stdin_reads = 1
    /\ outcome = "exit(1)"

\* The model names that follow the two-space indent of a preset's first line.
RECURSIVE ListedModels(_)
ListedModels(s) ==
    IF Len(s) < 2 THEN <<>>
    ELSE IF Head(s) = "  " THEN << s[2] >> \o ListedModels(Tail(Tail(s)))
    ELSE ListedModels(Tail(s))

\* stdout is the listing of some catalog: the single line for the empty
\* one, else the heading and the presets in order.
ListingPrinted ==
    \E presets \in PresetCatalogs :
        IF presets = <<>>
        THEN stdout = << "No models are currently available.", NL >>
        ELSE /\ stdout[1] = "Available models:"
             /\ Last(stdout) = NL
             /\ ListedModels(stdout) = [i \in 1..Len(presets) |-> presets[i].model]

\* What list-models mode never does: read or test standard input, fail with
\* a prompt error, consult the login check, build a payload, open a stream.
ListModelsBypasses ==
    /\ stdin_reads = 0
    /\ terminal_checks = 0
    /\ stderr = <<>>
    /\ outcome \notin { NoPromptProvided, EmptyStdinPrompt,
                        "Failed to read prompt from stdin" }
    /\ ~prompt_text.some
    /\ login = "pending"
    /\ input = <<>>
    /\ pc = "idle"

C15_TwoMessages ==
    input # <<>> =>
        /\ Len(input) = 2
        /\ input[1].variant = "Message"
        /\ input[1].role = "developer"
        /\ Len(input[1].content) = 1
        /\ input[1].content[1].kind = "InputText"
        /\ input[1].content[1].text =
              (IF cli.system_prompt.some THEN cli.system_prompt.text
               ELSE DEFAULT_SYSTEM_PROMPT)
        /\ input[2].variant = "Message"
        /\ input[2].role = "user"
        /\ Len(input[2].content) = 1
        /\ input[2].content[1].kind = "InputText"
        /\ input[2].content[1].text =
              (IF LiteralPrompt THEN cli.prompt.text ELSE stdin.data)

\* C15 witness: a payload built from a --system override and a piped prompt.
C15_Witness ==
    /\ input # <<>>
    /\ cli.system_prompt.some
    /\ ~cli.prompt.some
    /\ stdin_reads = 1

----------------------------------------------------------------------------
(* Properties of assistant_text.                                           *)

\* The text of the text-bearing units of a content list, in order.
RECURSIVE JoinText(_)
JoinText(content) ==
    IF content = <<>> THEN <<>>
    ELSE JoinText(SubSeq(content, 1, Len(content) - 1))
             \o (IF Last(content).kind = "InputImage" THEN <<>>
                 ELSE Last(content).text)

\* C16: assistant_text returns the in-order concatenation of the text units
\* of an assistant message when that is non-empty, and no text for any other
\* role, any non-message item, and any assistant message without text.
C16_AssistantText ==
    phase = "extracted" =>
        IF /\ extract_item.variant = "Message"
           /\ extract_item.role = "assistant"
           /\ JoinText(extract_item.content) # <<>>
        THEN extracted = [some |-> TRUE, text |-> JoinText(extract_item.content)]
        ELSE extracted = [some |-> FALSE, text |-> <<>>]

\* C16 witness: an assistant message of an input-text and an output-text
\* unit gave the two texts joined.
C16_Witness ==
    /\ phase = "extracted"
    /\ extract_item.variant = "Message"
    /\ extract_item.role = "assistant"
    /\ Len(extract_item.content) = 2
    /\ extract_item.content[1].kind = "InputText"
    /\ extract_item.content[2].kind = "OutputText"
    /\ extracted = [some |-> TRUE, text |-> << "a", "b" >>]

----------------------------------------------------------------------------
(* Further properties of consume_stream.                                   *)

\* The line a Completed event with token usage adds to stderr.
UsageLine(usage) ==
    << "Token usage: total=", ToString(usage.total_tokens),
       " input=", ToString(usage.input_tokens),
       " cached_input=", ToString(usage.cached_input_tokens),
       " output=", ToString(usage.output_tokens),
       " reasoning_output=", ToString(usage.reasoning_output_tokens), NL >>

\* What a Completed step with this usage is to do from the unprimed state.
CompletedAsSpecified(usage) ==
    LET closeSummary == reasoning_summary_line # <<>>
        closeAnswer  == printed_response
    IN  /\ CompletedWrites(reasoning_summary_line, printed_response, usage) =
              (IF closeSummary
               THEN << [sink |-> "stderr", tokens |-> << NL >>] >> ELSE <<>>)
              \o (IF closeAnswer
                  THEN << [sink |-> "stdout", tokens |-> << NL >>] >> ELSE <<>>)
              \o (IF usage.present
                  THEN << [sink |-> "stderr", tokens |-> UsageLine(usage)] >>
                  ELSE <<>>)
        /\ stderr' = stderr \o (IF closeSummary THEN << NL >> ELSE <<>>)
                            \o (IF usage.present THEN UsageLine(usage) ELSE <<>>)
        /\ stdout' = stdout \o (IF closeAnswer THEN << NL >> ELSE <<>>)
        /\ printed_response' = FALSE
        /\ reasoning_summary_line' = <<>>

\* C17: a Completed event writes, in this order, a newline to stderr iff the
\* summary buffer is non-empty, a newline to stdout iff printed_response, and
\* one token-usage line to stderr iff it carries usage; afterwards
\* printed_response is false and the buffer is empty.
C17_CompletedOrder ==
    [][ (Pulled /\ Last(consumed').type = "Completed") =>
            CompletedAsSpecified(Last(consumed').usage) ]_vars

\* C17 witness: a Completed with usage has just closed an open summary line
\* and open answer text.
C17_Witness ==
    /\ consumed # <<>>
    /\ Last(consumed).type = "Completed"
    /\ Last(consumed).usage.present
    /\ Len(stdout) >= 2
    /\ Last(stdout) = NL
    /\ \E i \in 2..(Len(stderr) - 1) :
          /\ stderr[i] = NL
          /\ stderr[i + 1] = "Token usage: total="
          /\ stderr[i - 1] \notin { NL, "(reasoning summary) " }

HasCompleted(evs) == \E i \in 1..Len(evs) : evs[i].type = "Completed"

\* C18: after a Completed event the stream is consumed as before it: no event
\* is refused, an output-text-delta is written to stdout and marks it open, a
\* further Completed acts as the first does, and exhaustion closes open
\* answer text with a newline.
C18_LateEventsProcessed ==
    [][ HasCompleted(consumed) =>
          /\ pc = "running"
          /\ (Pulled =>
                /\ (Last(consumed').type # "Error" =>
                       pc' = "running" /\ result' = "pending")
                /\ (Last(consumed').type = "OutputTextDelta" =>
                       /\ stdout' = stdout \o Last(consumed').text
                       /\ printed_response' = TRUE)
                /\ (Last(consumed').type = "Completed" =>
                       CompletedAsSpecified(Last(consumed').usage)))
          /\ (~Pulled =>
                /\ result' = "Ok"
                /\ stdout' = IF printed_response THEN Append(stdout, NL)
                             ELSE stdout) ]_vars

\* C18 witness: text streamed after a Completed was closed at exhaustion.
C18_Witness ==
    /\ ReturnedOk
    /\ printed_response
    /\ Last(stdout) = NL
    /\ \E i, j \in 1..Len(consumed) :
          /\ i < j
          /\ consumed[i].type = "Completed"
          /\ consumed[j].type = "OutputTextDelta"
          /\ consumed[j].text # <<>>

\* C19 (as claimed): while the consumer runs, printed_response is true
\* exactly when stdout holds a byte written since the start or the last
\* Completed, that is, after the last newline.
C19_PrintedIffBytes ==
    pc = "running" => (printed_response <=> OpenLine(stdout) # <<>>)

HasItemEvent(evs) == \E i \in 1..Len(evs) : evs[i].type \in ItemEventTypes

\* C20: stdout grows by exactly the fragment at each output-text-delta, by
\* nothing or the item's assistant text at an item event, by at most a
\* newline at a Completed or at exhaustion, and by nothing at any other
\* event; delta and item events write nothing to stderr; so without item
\* events stdout, newlines aside, is the fragments in arrival order.
C20_PrimarySinkContent ==
    [][ /\ (Pulled =>
              LET e == Last(consumed') IN
              /\ (e.type = "OutputTextDelta" =>
                     stdout' = stdout \o e.text /\ stderr' = stderr)
              /\ (e.type \in ItemEventTypes =>
                     /\ \/ stdout' = stdout
                        \/ /\ e.item.variant = "Message"
                           /\ e.item.role = "assistant"
                           /\ stdout' = stdout \o JoinText(e.item.content)
                     /\ stderr' = stderr)
              /\ (e.type = "Completed" =>
                     stdout' \in { stdout, Append(stdout, NL) })
              /\ (e.type \notin ItemEventTypes \cup {"OutputTextDelta", "Completed"} =>
                     stdout' = stdout))
        /\ (~Pulled => stdout' \in { stdout, Append(stdout, NL) })
        /\ (~HasItemEvent(consumed') =>
              SelectSeq(stdout', LAMBDA t : t # NL)
                  = TextOf("OutputTextDelta", consumed')) ]_vars

\* C20 witness: two fragments with a reasoning or rate-limit event between
\* them reached stdout in order.
C20_Witness ==
    /\ SelectSeq(stdout, LAMBDA t : t # NL) = << "a", "b" >>
    /\ stderr # <<>>
    /\ \E i, j, k \in 1..Len(consumed) :
          /\ i < j /\ j < k
          /\ consumed[i].type = "OutputTextDelta" /\ consumed[i].text = << "a" >>
          /\ consumed[j].type \in { "ReasoningSummaryDelta", "ReasoningContentDelta",
                                    "RateLimits" }
          /\ consumed[k].type = "OutputTextDelta" /\ consumed[k].text = << "b" >>

=============================================================================
